---- MODULE Spec2Model ----
\* Model of the Manim MCP server (src/docker/manim-mcp/server.py): the render
\* job handler render_animation, the external renderer process it waits for,
\* and the retention pass cleanup_old_videos over the shared media/videos tree.
EXTENDS Integers, Sequences, FiniteSets, TLC

max_videos == 3

\* ------------------------------------------------------------------ bounds
MaxJobs == 2        \* render requests handled in one behaviour
MaxLeft == max_videos + 1    \* tracked files a previous run left behind
MaxCode == 5        \* length of a submitted code body, in tokens
MaxPyCalls == 3     \* execute_python calls handled in one behaviour
MaxLateWrites == 2  \* files a renderer's surviving processes write during a pass
MaxMolJobs == 2     \* requests followed through visualize_molecule
MaxLines == 2       \* lines on the standard input of the stdio loop
MaxElapsed == 60    \* seconds a submitted Python program is followed for
TickSeconds == 10   \* granularity of the time a Python program runs

\* ------------------------------------------------------- program constants
TrackedExts == <<"mp4", "gif", "png">>          \* cleanup_old_videos scan order
FallbackExts == <<"gif", "mp4", "png">>         \* locator step-3 scan order
Formats == {"mp4", "gif", "png"}
ExitCodes == {0, 1}
Stdouts == {"out"}
Stderrs == {"err"}
\* line 121: f"{int(time.time())}_{uuid.uuid4().hex[:8]}", the values two
\* requests of the same second can draw
UniqueIds == {"1700000000_0a1b2c3d", "1700000000_4e5f6a7b"}

\* A file under the media directory.  job is the render whose renderer wrote it (a
\* job of a previous run has a negative number); loc is where it lies with
\* respect to that job's names:
\*   "p1"    media/videos/<stem>/<quality>/<unique_scene_name>.<ext>
\*   "p2"    media/videos/<stem>/<unique_scene_name>.<ext>
\*   "p3"    media/videos/<unique_scene_name>.<ext>
\*   "named" elsewhere, file name contains <unique_scene_name>
\*   "other" elsewhere, file name does not contain <unique_scene_name>
\* each of which is under media/videos, and
\*   "outside" under the media directory but not under media/videos
Locs == {"p1", "p2", "p3", "named", "other"}
\* mutant of ProbeLocs: the expected paths probed innermost last
ProbeLocsReversed == <<"p3", "p2", "p1">>

ProbeLocs == <<"p1", "p2", "p3">>
RendererLocs == {"p1", "named", "other"}    \* where the modelled renderer writes

VARIABLES
    pc,           \* "boot" | "idle" | "waiting" : position of the event loop
    dirExists,    \* media/videos exists
    fs,           \* files under the media directory
    now,          \* modification time the next write is stamped with
    nextJob,      \* number of render requests accepted so far
    req,          \* the request in flight or last handled
    child,        \* "none" | "running" | "exited" | "killed" : the renderer
    descendants,  \* jobs whose renderer left processes of its own alive
    wrote,        \* the renderer process has written its output file
    result,       \* what subprocess.run captured: its CompletedProcess, or the
                  \* output attached to TimeoutExpired (returned = FALSE)
    spawns,       \* renderer processes spawned for the request
    trace,        \* phases of render_animation executed for the request, and
                  \* "removed" when the located file was taken from under it
    tmpFiles,     \* temporary scene files on disk
    response,     \* envelope returned for the last request, or NoResponse
    outcome,      \* how the last request ended
    retention,    \* the last pass of cleanup_old_videos
    inflight,     \* [job, unique_id] of the calls of render_animation that
                  \* have been entered and have not returned
    namer,        \* the scene file and command line made from one code body
    py,           \* python-mcp: the call of execute_python in hand
    cmd,          \* the command line built for one tools/call
    sweep,        \* a retention pass followed unlink by unlink
    mol,          \* chatmol-mcp: the media directory and the call in hand
    stdio,        \* the stdio loop: lines left to read, lines written
    rpc,          \* handle_request: the request in hand and its response
    rag           \* rag-service: the collection and the last HTTP answer

vars == <<pc, dirExists, fs, now, nextJob, req, child, descendants, wrote,
          result, spawns, trace, tmpFiles, response, outcome, retention,
          inflight, namer, py, cmd, sweep, mol, stdio, rpc, rag>>

\* the state of the Manim server's request handling
serverVars == <<pc, dirExists, fs, now, nextJob, req, child, descendants, wrote,
                result, spawns, trace, tmpFiles, response, outcome, retention,
                inflight>>

\* what the actions of render_animation's process handling leave alone
others == <<namer, py, cmd, sweep, mol, stdio, rpc, rag>>

\* what the steps of each of the other components leave alone
besidesNamer == <<serverVars, py, cmd, sweep, mol, stdio, rpc, rag>>
besidesPy == <<serverVars, namer, cmd, sweep, mol, stdio, rpc, rag>>
besidesCmd == <<serverVars, namer, py, sweep, mol, stdio, rpc, rag>>
besidesMol == <<serverVars, namer, py, cmd, sweep, stdio, rpc, rag>>
besidesRag == <<serverVars, namer, py, cmd, sweep, mol, stdio, rpc>>

NoResult == [returncode |-> 0, stdout |-> "", stderr |-> "", returned |-> FALSE]
NoResponse == [isError |-> FALSE, content |-> <<>>]
NoRequest == [job |-> 0, hasCode |-> FALSE, format |-> "mp4"]
NoRetention == [ran |-> FALSE, runs |-> 0, before |-> {}, listError |-> FALSE,
                statError |-> FALSE, surplus |-> {}, failed |-> {}]
NoNamer == [pc |-> "none", code |-> <<>>, scene_name |-> <<>>, unique_id |-> "",
            scene_file |-> <<>>, cmd_scene |-> <<>>]
NoPy == [pc |-> "idle", timeout |-> 0, elapsed |-> 0, calls |-> 0,
         isError |-> FALSE]

NoCmd == [pc |-> "none", arguments |-> [given |-> {}], unique_id |-> "",
          argv |-> <<>>]
NoSweep == [pc |-> "none", output_file |-> <<>>, before |-> {}, todo |-> <<>>,
            surplus |-> {}, failed |-> {}, last |-> {}, writes |-> 0]
NoMol == [pc |-> "none", installed |-> FALSE, media |-> {}, job |-> 0,
          req |-> [pdb_id |-> "", style |-> "cartoon", format |-> "png"],
          wrote |-> FALSE, scripts |-> 0, outcome |-> "none",
          response |-> NoResponse]
NoStdio == [pc |-> "none", input |-> <<>>, done |-> <<>>, out |-> <<>>]
NoRpc == [pc |-> "none",
          request |-> [hasId |-> FALSE, id |-> "", method |-> "", params |-> "",
                       name |-> ""],
          before |-> [jobs |-> 0, fs |-> {}, tmpFiles |-> 0],
          response |-> [jsonrpc |-> "", id |-> "", result |-> NoResponse]]
NoRag == [pc |-> "none", collection |-> {}, before |-> {}, endpoint |-> "",
          valid |-> TRUE, status |-> 0]

Path(f) == <<f.job, f.loc, f.ext>>

\* ------------------------------------------------------ cleanup_old_videos
RECURSIVE Orders(_)
Orders(S) ==
    IF S = {} THEN {<<>>}
    ELSE UNION {{<<x>> \o s : s \in Orders(S \ {x})} : x \in S}

\* mutant of Matches: the scan not confined to media/videos
MatchesAnywhere(files, ext) == {f \in files : f.ext = ext}

\* what videos_dir.rglob("*.<ext>") matches (line 77): the files of one
\* extension at any depth under media/videos
Matches(files, ext) == {f \in files : f.ext = ext /\ f.loc \in Locs}

\* videos_dir.rglob("*.<ext>"): the matches in directory order
Rglob(files, ext) == Orders(Matches(files, ext))

\* lines 76-78: the three scans appended in the order mp4, gif, png
VideoFiles(files) ==
    {a \o b \o c : a \in Rglob(files, TrackedExts[1]),
                   b \in Rglob(files, TrackedExts[2]),
                   c \in Rglob(files, TrackedExts[3])}

\* lines 76-84: video_files after list.sort(key=st_mtime, reverse=True).  The
\* sort is stable, so the newest files come first and files stamped alike
\* stay in the order the scans listed them.
Newest(files) == {f \in files : \A g \in files : g.mtime <= f.mtime}

RECURSIVE SortedVideoFiles(_)
SortedVideoFiles(files) ==
    IF files = {} THEN {<<>>}
    ELSE {head \o rest : head \in VideoFiles(Newest(files)),
                         rest \in SortedVideoFiles(files \ Newest(files))}

\* line 80: len(video_files)
CountVideoFiles(files) ==
    Cardinality(Matches(files, TrackedExts[1]))
    + Cardinality(Matches(files, TrackedExts[2]))
    + Cardinality(Matches(files, TrackedExts[3]))

\* mutant of WithinLimit: the limit compared off by one
WithinLimitOffByOne(n) == n <= max_videos + 1

\* line 80: nothing to do
WithinLimit(n) == n <= max_videos

\* mutant of FilesToDelete: the slice starts one entry late
FilesToDeleteOffByOne(sorted) == SubSeq(sorted, max_videos + 2, Len(sorted))

\* line 87: video_files[self.max_videos:]
FilesToDelete(sorted) == SubSeq(sorted, max_videos + 1, Len(sorted))

Range(s) == {s[i] : i \in 1..Len(s)}

\* mutant of Deleted: the loop is left at the first unlink() that raises
DeletedUntilFailure(to_delete, failing) ==
    {to_delete[i] : i \in {k \in 1..Len(to_delete) :
                              \A j \in 1..k : to_delete[j] \notin failing}}

\* lines 90-96: every entry of files_to_delete is tried; one whose unlink()
\* raises stays on disk and the loop goes on
Deleted(to_delete, failing) == Range(to_delete) \ failing

\* A pass that returned without deleting (lines 72-73, 80-81) or was cut
\* short by an exception caught at line 101
PassOver(files, listError, statError) ==
    [ran |-> TRUE, before |-> files, listError |-> listError,
     statError |-> statError, surplus |-> {}, failed |-> {}, after |-> files]

\* The passes cleanup_old_videos can make over `files`: whether a listing
\* raises, the directory order of the listing, whether a stat() in the sort
\* raises, and the unlink() calls that raise are the environment's choice.
CleanupPasses(exists, files) ==
    IF ~exists THEN {PassOver(files, FALSE, FALSE)}
    ELSE {PassOver(files, TRUE, FALSE)} \cup
         IF WithinLimit(CountVideoFiles(files))
         THEN {PassOver(files, FALSE, FALSE)}
         ELSE {PassOver(files, FALSE, TRUE)}
              \cup UNION {
                  {[ran |-> TRUE, before |-> files, listError |-> FALSE,
                    statError |-> FALSE,
                    surplus |-> Range(FilesToDelete(sorted)),
                    failed |-> failing,
                    after |-> files \ Deleted(FilesToDelete(sorted), failing)]
                   : failing \in SUBSET Range(FilesToDelete(sorted))}
                  : sorted \in SortedVideoFiles(files)}

\* what the model keeps of a pass: retention.runs counts the passes made for
\* the construction or for the request in hand
Retained(pass) == [ran |-> pass.ran, runs |-> retention.runs + 1,
                   before |-> pass.before, listError |-> pass.listError,
                   statError |-> pass.statError, surplus |-> pass.surplus,
                   failed |-> pass.failed]

\* ------------------------------------------------------------------- Init
\* What a previous run can have left under media/videos: nothing, MaxLeft
\* files with distinct modification times, or MaxLeft files of which the
\* max_videos-th and the next newest are stamped alike.
LeftFile(i, t) == [job |-> 0 - i, loc |-> "p1", ext |-> TrackedExts[(i % 3) + 1],
                   mtime |-> t]

LeftSets ==
    { {}, {LeftFile(i, 0 - i) : i \in 1..MaxLeft},
      {LeftFile(i, IF i = max_videos + 1 THEN 0 - max_videos ELSE 0 - i)
       : i \in 1..MaxLeft} }

ServerInit ==
    /\ pc = "boot"
    /\ dirExists \in BOOLEAN
    /\ fs \in (IF dirExists THEN LeftSets ELSE {{}})
    /\ now = 1
    /\ nextJob = 0
    /\ req = NoRequest
    /\ child = "none"
    /\ descendants = {}
    /\ wrote = FALSE
    /\ result = NoResult
    /\ spawns = 0
    /\ trace = {}
    /\ tmpFiles = 0
    /\ response = NoResponse
    /\ outcome = "none"
    /\ retention = NoRetention
    /\ inflight = {}

Init ==
    /\ ServerInit
    /\ namer = NoNamer
    /\ py = NoPy
    /\ cmd = NoCmd
    /\ sweep = NoSweep
    /\ mol = NoMol
    /\ stdio = NoStdio
    /\ rpc = NoRpc
    /\ rag = NoRag

\* __init__ (lines 22-28): the first retention pass
Construct ==
    /\ pc = "boot"
    /\ \E pass \in CleanupPasses(dirExists, fs) :
          /\ fs' = pass.after
          /\ retention' = Retained(pass)
    /\ pc' = "idle"
    /\ UNCHANGED <<dirExists, now, nextJob, req, child, descendants, wrote,
                   result, spawns, trace, tmpFiles, response, outcome, inflight>>
    /\ UNCHANGED others


\* ------------------------------------------------------------- envelopes
TextItem(text) == [type |-> "text", text |-> text]
ResourceItem(file, mime) == [type |-> "resource", uri |-> Path(file),
                             mimeType |-> mime, bytes |-> file]

\* lines 177-183
RenderFailedEnvelope(res) ==
    [isError |-> TRUE,
     content |-> <<TextItem(<<"Manim rendering failed:", res.stderr>>)>>]

\* mutant of NotFoundEnvelope: the error flag left unset
NotFoundEnvelopeUnflagged(res) ==
    [isError |-> FALSE,
     content |-> <<TextItem(<<"Animation rendered but output file not found.",
                              "Manim output:", res.stdout, "Searched paths:">>)>>]

\* lines 217-223
NotFoundEnvelope(res) ==
    [isError |-> TRUE,
     content |-> <<TextItem(<<"Animation rendered but output file not found.",
                              "Manim output:", res.stdout, "Searched paths:">>)>>]

\* lines 262-268
TimedOutEnvelope ==
    [isError |-> TRUE,
     content |-> <<TextItem(<<"Animation rendering timed out (max 2 minutes)">>)>>]

\* mutant of RenderingErrorEnvelope: the error flag left unset
RenderingErrorEnvelopeUnflagged(exc) ==
    [isError |-> FALSE,
     content |-> <<TextItem(<<"Rendering Error:", exc, "Traceback:">>)>>]

\* lines 270-277
RenderingErrorEnvelope(exc) ==
    [isError |-> TRUE,
     content |-> <<TextItem(<<"Rendering Error:", exc, "Traceback:">>)>>]

\* lines 230-235 and 253
MimeType(format) ==
    CASE format = "mp4" -> "video/mp4"
      [] format = "gif" -> "image/gif"
      [] format = "png" -> "image/png"
      [] OTHER -> "application/octet-stream"

\* lines 243-259
SuccessEnvelope(file, format) ==
    [isError |-> FALSE,
     content |-> <<TextItem(<<"Animation rendered successfully">>),
                   ResourceItem(file, MimeType(format))>>]

\* The exceptions the handler's operations raise, and the two except clauses
\* of render_animation (lines 261 and 269).
Exceptions == {"TimeoutExpired", "OSError", "FileNotFoundError", "PermissionError"}

\* mutant of CaughtByExceptException: the generic except clause is missing
CaughtOnlyTimeout(exc) == exc = "TimeoutExpired"

CaughtByExceptException(exc) == exc \in Exceptions

\* What render_animation does with an exception raised inside its try block:
\* <<outcome, envelope>>; outcome "raised" is an exception leaving the call.
Handle(exc) ==
    IF exc = "TimeoutExpired" THEN <<"timeout", TimedOutEnvelope>>
    ELSE IF CaughtByExceptException(exc)
         THEN <<"error", RenderingErrorEnvelope(exc)>>
         ELSE <<"raised", NoResponse>>

\* ---------------------------------------------------------------- locator
\* lines 189-199: the first of the three expected paths that exists
RECURSIVE Probe(_, _, _, _)
Probe(files, job, format, i) ==
    IF i > Len(ProbeLocs) THEN {}
    ELSE LET hit == {f \in files : /\ f.job = job /\ f.loc = ProbeLocs[i]
                                   /\ f.ext = format}
         IN  IF hit # {} THEN hit ELSE Probe(files, job, format, i + 1)

\* lines 202-205: rglob("*<unique_scene_name>*.<format>"), first entry
ByScenePattern(files, job, format) ==
    {f \in files : f.job = job /\ f.loc \in Locs \ {"other"} /\ f.ext = format}

\* lines 208-214: the first entry of the first non-empty rglob("*.<ext>")
RECURSIVE AnyTracked(_, _)
AnyTracked(files, i) ==
    IF i > Len(FallbackExts) THEN {}
    ELSE LET hit == {f \in files : f.ext = FallbackExts[i] /\ f.loc \in Locs}
         IN  IF hit # {} THEN hit ELSE AnyTracked(files, i + 1)

\* The files output_file can be bound to at line 216 ({}: output_file is None)
Locate(files, job, format) ==
    IF Probe(files, job, format, 1) # {} THEN Probe(files, job, format, 1)
    ELSE IF ByScenePattern(files, job, format) # {}
         THEN ByScenePattern(files, job, format)
         ELSE AnyTracked(files, 1)

\* ------------------------------------------------------- render_animation
\* mutant of RenderFailed: the exit code is not looked at
RenderFailedNever(res) == FALSE

\* mutant of RenderFailed: only a death by signal counts as a failure
RenderFailedNegative(res) == res.returncode < 0

\* line 176
RenderFailed(res) == res.returncode # 0

\* mutant of Return: a failed render is attempted once more
ReturnOrRetry(out, env) ==
    IF out = "failed" /\ spawns < 2
    THEN /\ pc' = "waiting"
         /\ spawns' = spawns + 1
         /\ UNCHANGED <<outcome, response>>
    ELSE /\ pc' = "idle"
         /\ outcome' = out
         /\ response' = env
         /\ spawns' = spawns

\* A return statement of render_animation after subprocess.run: the request
\* is over, and no further renderer is spawned for it.
Return(out, env) ==
    /\ pc' = "idle"
    /\ outcome' = out
    /\ response' = env
    /\ spawns' = spawns

\* An exception raised inside the try block after subprocess.run was called
Raise(exc) == Return(Handle(exc)[1], Handle(exc)[2])

\* An exception raised inside the try block before that
RaiseEarly(exc) ==
    /\ pc' = "idle"
    /\ outcome' = Handle(exc)[1]
    /\ response' = Handle(exc)[2]
    /\ spawns' = 0

\* mutant of LoopIdle: the handler of a request is started although another
\* call of render_animation has not returned
LoopAlwaysFree == TRUE

\* The event loop starts the handler of the next request only when no
\* coroutine is running on it.  render_animation contains no await, and
\* subprocess.run (line 168) blocks the loop's thread until the renderer has
\* exited or timed out: from its call (line 286) to its return the loop does
\* nothing else.
LoopIdle == pc = "idle"

\* call_tool (lines 281-288) and render_animation up to the call of
\* subprocess.run (lines 117-174): the temporary scene file is written, the
\* output directory made and the renderer spawned.
CallTool(args, fault) ==
    /\ LoopIdle
    /\ nextJob' = nextJob + 1
    /\ req' = [job |-> nextJob + 1, hasCode |-> args.hasCode, format |-> args.format]
    /\ result' = NoResult
    /\ retention' = NoRetention
    /\ wrote' = FALSE
    /\ UNCHANGED <<fs, now, descendants>>
    /\ UNCHANGED others
    /\ CASE fault = "tempfile" ->
              /\ RaiseEarly("OSError")
              /\ trace' = {}
              /\ UNCHANGED <<tmpFiles, dirExists, child, inflight>>
         [] fault = "spawn" ->
              /\ RaiseEarly("FileNotFoundError")
              /\ trace' = {"tempfile", "mkdir"}
              /\ tmpFiles' = tmpFiles + 1
              /\ dirExists' = TRUE
              /\ UNCHANGED <<child, inflight>>
         [] OTHER ->
              /\ pc' = "waiting"
              /\ trace' = {"tempfile", "mkdir", "spawn"}
              /\ tmpFiles' = tmpFiles + 1
              /\ dirExists' = TRUE
              /\ spawns' = 1
              /\ child' = "running"
              /\ outcome' = "none"
              /\ response' = NoResponse
              /\ \E unique_id \in UniqueIds :
                    inflight' = inflight \cup {[job |-> nextJob + 1,
                                                unique_id |-> unique_id]}

\* ---- the renderer process and what it spawns.  A renderer writes at most
\* one output file under media/videos.
ChildWrite(loc, ext) ==
    /\ child = "running"
    /\ ~wrote
    /\ wrote' = TRUE
    /\ fs' = {f \in fs : Path(f) # <<req.job, loc, ext>>}
             \cup {[job |-> req.job, loc |-> loc, ext |-> ext, mtime |-> now]}
    /\ now' = now + 1
    /\ UNCHANGED <<pc, dirExists, nextJob, req, child, descendants, result,
                   spawns, trace, tmpFiles, response, outcome, retention,
                   inflight>>
    /\ UNCHANGED others

ChildFork ==
    /\ child = "running"
    /\ req.job \notin descendants
    /\ descendants' = descendants \cup {req.job}
    /\ UNCHANGED <<pc, dirExists, fs, now, nextJob, req, child, wrote, result,
                   spawns, trace, tmpFiles, response, outcome, retention,
                   inflight>>
    /\ UNCHANGED others

DescendantsExit(job) ==
    /\ job \in descendants
    /\ descendants' = descendants \ {job}
    /\ UNCHANGED <<pc, dirExists, fs, now, nextJob, req, child, wrote, result,
                   spawns, trace, tmpFiles, response, outcome, retention,
                   inflight>>
    /\ UNCHANGED others

\* subprocess.run raises TimeoutExpired (line 172): it has killed and reaped
\* the child it started, and nothing else; lines 261-268 answer.
RunTimesOut(out, err) ==
    /\ pc = "waiting"
    /\ child = "running"
    /\ child' = "killed"
    /\ result' = [returncode |-> 0, stdout |-> out, stderr |-> err, returned |-> FALSE]
    /\ Raise("TimeoutExpired")
    /\ inflight' = {r \in inflight : r.job # req.job}
    /\ UNCHANGED <<dirExists, fs, now, nextJob, req, descendants, wrote,
                   trace, tmpFiles, retention>>
    /\ UNCHANGED others

\* line 226: open(output_file, 'rb').  Between line 216 and this call the
\* file can have been removed ("gone"), or it cannot be read ("denied").
Reads == {"ok", "gone", "denied"}

Open(output_file, read) ==
    CASE read = "gone" -> "FileNotFoundError"
      [] read = "denied" -> "PermissionError"
      [] OTHER -> "opened"

\* mutant of SuccessPath: the retention pass ahead of the read
SuccessPathCleanupFirst == <<"locate", "cleanup", "read", "unlink">>

\* The steps of render_animation after a renderer that exited 0, in the order
\* of the code: the locator (lines 185-214), the read and encoding of the
\* artifact (226-228), the unlink of the scene file (238) and the retention
\* pass (241).
SuccessPath == <<"locate", "read", "unlink", "cleanup">>

\* The steps that have run once `step` has: a raise leaves the later ones out.
Upto(step) ==
    LET k == CHOOSE i \in 1..Len(SuccessPath) : SuccessPath[i] = step
    IN {SuccessPath[i] : i \in 1..k}

\* The renderer exits, subprocess.run returns its CompletedProcess (line 174)
\* and render_animation runs to its return (lines 176-259, or the except
\* clause at 269).
RunReturns(res, read, unlinkFails) ==
    /\ pc = "waiting"
    /\ child = "running"
    /\ child' = "exited"
    /\ result' = res
    /\ inflight' = {r \in inflight : r.job # req.job}
    /\ UNCHANGED <<dirExists, now, nextJob, req, descendants, wrote>>
    /\ UNCHANGED others
    /\ IF RenderFailed(res)
       THEN /\ Return("failed", RenderFailedEnvelope(res))
            /\ UNCHANGED <<fs, trace, tmpFiles, retention>>
       ELSE IF Locate(fs, req.job, req.format) = {}
       THEN /\ Return("not_found", NotFoundEnvelope(res))
            /\ trace' = trace \cup Upto("locate")
            /\ UNCHANGED <<fs, tmpFiles, retention>>
       ELSE \E output_file \in Locate(fs, req.job, req.format) :
            IF Open(output_file, read) # "opened"
            THEN /\ Raise(Open(output_file, read))
                 /\ trace' = trace \cup Upto("locate")
                              \cup (IF read = "gone" THEN {"removed"} ELSE {})
                 /\ fs' = (IF read = "gone" THEN fs \ {output_file} ELSE fs)
                 /\ UNCHANGED <<tmpFiles, retention>>
            ELSE IF unlinkFails
            THEN /\ Raise("FileNotFoundError")
                 /\ trace' = trace \cup Upto("read")
                 /\ UNCHANGED <<fs, tmpFiles, retention>>
            ELSE \E pass \in CleanupPasses(dirExists, fs) :
                 /\ fs' = pass.after
                 /\ retention' = Retained(pass)
                 /\ tmpFiles' = tmpFiles - 1
                 /\ trace' = trace \cup Upto("cleanup")
                 /\ IF output_file \in pass.after
                    THEN Return("success", SuccessEnvelope(output_file, req.format))
                    ELSE Raise("FileNotFoundError")

\* The arguments of a tools/call: a code body with one of the formats, or
\* nothing at all (every field takes its default, lines 283-287).
Arguments ==
    {[hasCode |-> TRUE, format |-> f] : f \in Formats}
    \cup {[hasCode |-> FALSE, format |-> "mp4"]}

CompletedProcesses ==
    {[returncode |-> rc, stdout |-> out, stderr |-> err, returned |-> TRUE]
     : rc \in ExitCodes, out \in Stdouts, err \in Stderrs}

Next ==
    \/ Construct
    \/ /\ nextJob < MaxJobs
       /\ \E args \in Arguments, fault \in {"none", "tempfile", "spawn"} :
             CallTool(args, fault)
    \/ \E loc \in RendererLocs : ChildWrite(loc, req.format)
    \/ \E out \in Stdouts, err \in Stderrs : RunTimesOut(out, err)
    \/ \E res \in CompletedProcesses, read \in Reads, unlinkFails \in BOOLEAN :
          RunReturns(res, read, unlinkFails)

Spec == Init /\ [][Next]_vars

\* The same server with the processes the renderer itself starts (LaTeX,
\* ffmpeg) in view.
NextProc ==
    \/ Next
    \/ ChildFork
    \/ \E job \in descendants : DescendantsExit(job)

SpecProc == Init /\ [][NextProc]_vars

\* Sequential renders that each write one artifact at the first expected path
\* and exit 0, after whatever a previous run left behind.
ScenarioRenders == max_videos + 2

NextScenario ==
    \/ Construct
    \/ /\ nextJob < ScenarioRenders
       /\ CallTool([hasCode |-> TRUE, format |-> "mp4"], "none")
    \/ ChildWrite("p1", req.format)
    \/ /\ wrote
       /\ \E res \in {r \in CompletedProcesses : r.returncode = 0} :
             RunReturns(res, "ok", FALSE)

SpecScenario == Init /\ [][NextScenario]_vars

\* ------------------------------- a retention pass and the writes beside it
\* cleanup_old_videos is no atomic step of the file system: the listing
\* (lines 76-78), the sort (84) and each unlink (92) are system calls of
\* their own, and the processes a timed-out renderer left alive write under
\* media/videos in between.  Request 3 is at line 241: the renderer of
\* request 1 timed out after it wrote its file and left processes alive,
\* request 2 and request 3 have written their artifacts, the artifact of
\* request 3 is read and its scene file unlinked.
JobFile(job, loc, t) == [job |-> job, loc |-> loc, ext |-> "mp4", mtime |-> t]

RaceDisks ==
    {{JobFile(1, "p1", 1), JobFile(2, "p1", 2), JobFile(3, "p1", 3)} \cup left
     : left \in SUBSET {LeftFile(1, 0)}}

InitRace ==
    /\ pc = "waiting"
    /\ dirExists = TRUE
    /\ fs \in RaceDisks
    /\ now = 4
    /\ nextJob = 3
    /\ req = [job |-> 3, hasCode |-> TRUE, format |-> "mp4"]
    /\ child = "exited"
    /\ descendants = {1}
    /\ wrote = TRUE
    /\ result \in {r \in CompletedProcesses : r.returncode = 0}
    /\ spawns = 1
    /\ trace = {"tempfile", "mkdir", "spawn"} \cup Upto("unlink")
    /\ tmpFiles = 1
    /\ response = NoResponse
    /\ outcome = "none"
    /\ retention = NoRetention
    /\ inflight \in {{[job |-> 3, unique_id |-> u]} : u \in UniqueIds}
    /\ namer = NoNamer
    /\ py = NoPy
    /\ cmd = NoCmd
    /\ sweep = [NoSweep EXCEPT !.pc = "start",
                                !.output_file = Path(JobFile(3, "p1", 3))]
    /\ mol = NoMol
    /\ stdio = NoStdio
    /\ rpc = NoRpc
    /\ rag = NoRag

\* what a step of the pass leaves alone
besidesSweep == <<pc, dirExists, nextJob, req, child, descendants, wrote, result,
                  spawns, tmpFiles, namer, py, cmd, mol, stdio, rpc, rag>>

\* lines 71-87: the listing, the count, the sort and the slice
SweepList ==
    /\ sweep.pc = "start"
    /\ IF ~dirExists \/ WithinLimit(CountVideoFiles(fs))
       THEN sweep' = [sweep EXCEPT !.pc = "swept", !.before = fs]
       ELSE \E sorted \in SortedVideoFiles(fs) :
               LET files_to_delete == FilesToDelete(sorted)
               IN  sweep' = [sweep EXCEPT
                               !.pc = IF files_to_delete = <<>> THEN "swept"
                                      ELSE "deleting",
                               !.before = fs,
                               !.todo = [i \in 1..Len(files_to_delete)
                                         |-> Path(files_to_delete[i])],
                               !.surplus = Range(files_to_delete)]
    /\ UNCHANGED <<fs, now, trace, response, outcome, retention, inflight>>
    /\ UNCHANGED besidesSweep

\* lines 90-96: one turn of the loop.  unlink() removes whatever file the
\* path names now; when it raises, the loop goes on.
SweepUnlink(raises) ==
    /\ sweep.pc = "deleting"
    /\ LET video_file == Head(sweep.todo)
           named == {f \in fs : Path(f) = video_file}
           gone == IF raises THEN {} ELSE named
       IN  /\ fs' = fs \ gone
           /\ sweep' = [sweep EXCEPT
                          !.pc = IF Len(sweep.todo) = 1 THEN "swept"
                                 ELSE "deleting",
                          !.todo = Tail(sweep.todo),
                          !.failed = IF gone = {}
                                     THEN @ \cup {f \in sweep.surplus :
                                                     Path(f) = video_file}
                                     ELSE @,
                          !.last = {[file |-> f, disk |-> fs] : f \in gone}]
    /\ UNCHANGED <<now, trace, response, outcome, retention, inflight>>
    /\ UNCHANGED besidesSweep

\* lines 243-259 (or the clause at 269 when stat() at line 247 raises):
\* render_animation returns
SweepReturns ==
    /\ sweep.pc = "swept"
    /\ sweep' = [sweep EXCEPT !.pc = "returned", !.last = {}]
    /\ retention' = [ran |-> TRUE, runs |-> retention.runs + 1,
                     before |-> sweep.before, listError |-> FALSE,
                     statError |-> FALSE, surplus |-> sweep.surplus,
                     failed |-> sweep.failed]
    /\ trace' = trace \cup Upto("cleanup")
    /\ inflight' = {r \in inflight : r.job # req.job}
    /\ LET output_file == {f \in fs : Path(f) = sweep.output_file}
       IN  IF output_file # {}
           THEN \E f \in output_file :
                   Return("success", SuccessEnvelope(f, req.format))
           ELSE Raise("FileNotFoundError")
    /\ UNCHANGED <<dirExists, fs, now, nextJob, req, child, descendants, wrote,
                   result, tmpFiles, namer, py, cmd, mol, stdio, rpc, rag>>

\* A process the renderer of `job` left alive writes a file under
\* media/videos, a new one or one it wrote before.
LateWrite(job, loc) ==
    /\ job \in descendants
    /\ sweep.pc \in {"start", "deleting", "swept"}
    /\ sweep.writes < MaxLateWrites
    /\ fs' = {f \in fs : Path(f) # Path(JobFile(job, loc, now))}
             \cup {JobFile(job, loc, now)}
    /\ now' = now + 1
    /\ sweep' = [sweep EXCEPT !.writes = @ + 1, !.last = {}]
    /\ UNCHANGED <<trace, response, outcome, retention, inflight>>
    /\ UNCHANGED besidesSweep

NextRace ==
    \/ SweepList
    \/ \E raises \in BOOLEAN : SweepUnlink(raises)
    \/ SweepReturns
    \/ \E job \in descendants, loc \in RendererLocs : LateWrite(job, loc)

SpecRace == InitRace /\ [][NextRace]_vars

\* ------------------------------------------ the retention pass on its own
\* The server is constructed over a media directory that holds any of: five
\* tracked files of a previous run under media/videos, two files there that
\* have no tracked extension (the newest of all), and two files outside
\* media/videos (the oldest of all), one of them an mp4.
UntrackedFiles == {[job |-> 0 - 1, loc |-> "p1", ext |-> "tex", mtime |-> 1],
                   [job |-> 0 - 2, loc |-> "other", ext |-> "svg", mtime |-> 2]}
OutsideFiles == {[job |-> 0 - 1, loc |-> "outside", ext |-> "mp4", mtime |-> 0 - 9],
                 [job |-> 0 - 2, loc |-> "outside", ext |-> "py", mtime |-> 0 - 8]}
MediaDirs ==
    SUBSET ({LeftFile(i, 0 - i) : i \in 1..(MaxLeft + 1)}
            \cup UntrackedFiles \cup OutsideFiles)

InitRetention ==
    /\ pc = "boot"
    /\ dirExists \in BOOLEAN
    /\ fs \in (IF dirExists THEN MediaDirs ELSE SUBSET OutsideFiles)
    /\ now = 3
    /\ nextJob = 0
    /\ req = NoRequest
    /\ child = "none"
    /\ descendants = {}
    /\ wrote = FALSE
    /\ result = NoResult
    /\ spawns = 0
    /\ trace = {}
    /\ tmpFiles = 0
    /\ response = NoResponse
    /\ outcome = "none"
    /\ retention = NoRetention
    /\ inflight = {}
    /\ namer = NoNamer
    /\ py = NoPy
    /\ cmd = NoCmd
    /\ sweep = NoSweep
    /\ mol = NoMol
    /\ stdio = NoStdio
    /\ rpc = NoRpc
    /\ rag = NoRag

NextRetention == Construct

SpecRetention == InitRetention /\ [][NextRetention]_vars

\* -------------------------------------------- the locator on its own
\* The renderer of request 1 has run; media/videos holds up to max_videos
\* files: files of this request at any of the places and in any of the
\* formats, and files of earlier jobs.
OwnFiles == {[job |-> 1, loc |-> l, ext |-> e, mtime |-> 1]
             : l \in Locs, e \in Formats}
EarlierFiles == {LeftFile(i, 0) : i \in 1..max_videos}
Disks == {d \in SUBSET (OwnFiles \cup EarlierFiles) : Cardinality(d) <= max_videos}

InitLocate ==
    /\ pc = "waiting"
    /\ dirExists = TRUE
    /\ fs \in Disks
    /\ now = 2
    /\ nextJob = 1
    /\ req \in {[job |-> 1, hasCode |-> TRUE, format |-> f] : f \in Formats}
    /\ child = "running"
    /\ descendants = {}
    /\ wrote = TRUE
    /\ result = NoResult
    /\ spawns = 1
    /\ trace = {"tempfile", "mkdir", "spawn"}
    /\ tmpFiles = 1
    /\ response = NoResponse
    /\ outcome = "none"
    /\ retention = NoRetention
    /\ inflight \in {{[job |-> 1, unique_id |-> u]} : u \in UniqueIds}
    /\ namer = NoNamer
    /\ py = NoPy
    /\ cmd = NoCmd
    /\ sweep = NoSweep
    /\ mol = NoMol
    /\ stdio = NoStdio
    /\ rpc = NoRpc
    /\ rag = NoRag

NextLocate ==
    \E res \in {r \in CompletedProcesses : r.returncode = 0} :
        RunReturns(res, "ok", FALSE)

SpecLocate == InitLocate /\ [][NextLocate]_vars

\* ---------------------------------------- the scene file and the scene named
\* render_animation, lines 121-150.  A code body is a sequence of tokens: the
\* keyword "class" with the blank
\* after it, a letter of an identifier, a character that ends an identifier,
\* and the text the import test of line 129 looks for.
ClassKw == "class "
ImportText == "from manim import"
ImportLine == "from manim import *"
Letters == {"A"}
CodeTokens == {ClassKw, "A", "(", ImportText}
SceneNames == {<<"A">>, <<"A", "A">>}

Codes == UNION {[1..n -> CodeTokens] : n \in 0..MaxCode}

Contains(s, sub) ==
    \E i \in 1..(Len(s) - Len(sub) + 1) : SubSeq(s, i, i + Len(sub) - 1) = sub

\* mutant of Replace: str.replace(old, new, 1)
RECURSIVE ReplaceFirst(_, _, _)
ReplaceFirst(s, old, new) ==
    IF Len(s) < Len(old) THEN s
    ELSE IF SubSeq(s, 1, Len(old)) = old
         THEN new \o SubSeq(s, Len(old) + 1, Len(s))
         ELSE <<s[1]>> \o ReplaceFirst(Tail(s), old, new)

\* str.replace(old, new): every occurrence of old, found from the left
\* without overlap, becomes new
RECURSIVE Replace(_, _, _)
Replace(s, old, new) ==
    IF Len(s) < Len(old) THEN s
    ELSE IF SubSeq(s, 1, Len(old)) = old
         THEN new \o Replace(SubSeq(s, Len(old) + 1, Len(s)), old, new)
         ELSE <<s[1]>> \o Replace(Tail(s), old, new)

\* line 122: f"{scene_name}_{unique_id}"
UniqueSceneName(scene_name, unique_id) == scene_name \o <<"_", unique_id>>

\* lines 128-134: what is written to the temporary scene file
SceneFile(code, scene_name, unique_scene_name) ==
    (IF Contains(code, <<ImportText>>) THEN <<>> ELSE <<ImportLine>>)
    \o Replace(code, <<ClassKw>> \o scene_name, <<ClassKw>> \o unique_scene_name)

\* mutant of CommandScene: the scene is commanded under the name requested
CommandSceneAsRequested(scene_name, unique_scene_name) == scene_name

\* line 149: the scene argument of the command line
CommandScene(scene_name, unique_scene_name) == unique_scene_name

InitNamer ==
    /\ ServerInit
    /\ ~dirExists
    /\ namer \in {[pc |-> "called", code |-> c, scene_name |-> n,
                    unique_id |-> u, scene_file |-> <<>>, cmd_scene |-> <<>>]
                   : c \in Codes, n \in SceneNames, u \in UniqueIds}
    /\ py = NoPy
    /\ cmd = NoCmd
    /\ sweep = NoSweep
    /\ mol = NoMol
    /\ stdio = NoStdio
    /\ rpc = NoRpc
    /\ rag = NoRag

\* lines 121-150
WriteSceneFile ==
    /\ namer.pc = "called"
    /\ LET unique_scene_name == UniqueSceneName(namer.scene_name, namer.unique_id)
       IN  namer' = [namer EXCEPT
                       !.pc = "written",
                       !.scene_file = SceneFile(namer.code, namer.scene_name,
                                                unique_scene_name),
                       !.cmd_scene = CommandScene(namer.scene_name,
                                                  unique_scene_name)]
    /\ UNCHANGED besidesNamer

NextNamer == WriteSceneFile

SpecNamer == InitNamer /\ [][NextNamer]_vars

\* ------------------------------------------------------ the command line
\* call_tool (lines 279-288) and render_animation, lines 121-158.  The
\* arguments of a tools/call carry any of the four optional fields; a field
\* that is not given holds nothing.
DefaultSceneName == <<"MainScene">>
Qualities == {"low", "medium", "high", "production", "ultra"}
CmdFormats == {"mp4", "gif", "png", "webm"}
ArgumentKeys == {"scene_name", "quality", "format", "transparent"}

ToolArguments ==
    {a \in [given : SUBSET ArgumentKeys,
            scene_name : {<<>>, <<"A">>},
            quality : Qualities \cup {""},
            format : CmdFormats \cup {""},
            transparent : BOOLEAN] :
       /\ ("scene_name" \in a.given) <=> (a.scene_name # <<>>)
       /\ ("quality" \in a.given) <=> (a.quality # "")
       /\ ("format" \in a.given) <=> (a.format # "")
       /\ a.transparent => "transparent" \in a.given}

\* arguments.get(key, default), lines 283-287
Get(arguments, key, default) ==
    IF key \in arguments.given THEN arguments[key] ELSE default

\* mutant of QualityFlag: a quality the table does not hold renders low
QualityFlagLowest(quality) ==
    CASE quality = "low" -> "-ql"
      [] quality = "medium" -> "-qm"
      [] quality = "high" -> "-qh"
      [] quality = "production" -> "-qp"
      [] OTHER -> "-ql"

\* lines 137-147: quality_map.get(quality, "-qm")
QualityFlag(quality) ==
    CASE quality = "low" -> "-ql"
      [] quality = "medium" -> "-qm"
      [] quality = "high" -> "-qh"
      [] quality = "production" -> "-qp"
      [] OTHER -> "-qm"

\* lines 152-155
FormatFlag(format) ==
    IF format = "gif" THEN <<"--format=gif">>
    ELSE IF format = "png" THEN <<"--format=png">>
    ELSE <<>>

\* lines 157-158
TransparentFlag(transparent) ==
    IF transparent THEN <<"--transparent">> ELSE <<>>

\* lines 145-158: cmd as handed to subprocess.run; "scene_file" stands for
\* the path of the temporary scene file
Cmd(unique_scene_name, quality, format, transparent) ==
    <<"manim", QualityFlag(quality), "scene_file", unique_scene_name>>
    \o FormatFlag(format) \o TransparentFlag(transparent)

InitCommand ==
    /\ ServerInit
    /\ ~dirExists
    /\ namer = NoNamer
    /\ py = NoPy
    /\ cmd \in {[pc |-> "called", arguments |-> a, unique_id |-> u, argv |-> <<>>]
                 : a \in ToolArguments, u \in UniqueIds}
    /\ sweep = NoSweep
    /\ mol = NoMol
    /\ stdio = NoStdio
    /\ rpc = NoRpc
    /\ rag = NoRag

\* call_tool hands the fields or their defaults to render_animation, which
\* builds the command
BuildCommand ==
    /\ cmd.pc = "called"
    /\ LET scene_name == Get(cmd.arguments, "scene_name", DefaultSceneName)
           quality == Get(cmd.arguments, "quality", "medium")
           format == Get(cmd.arguments, "format", "mp4")
           transparent == Get(cmd.arguments, "transparent", FALSE)
       IN  cmd' = [cmd EXCEPT
                     !.pc = "built",
                     !.argv = Cmd(UniqueSceneName(scene_name, cmd.unique_id),
                                  quality, format, transparent)]
    /\ UNCHANGED besidesCmd

NextCommand == BuildCommand

SpecCommand == InitCommand /\ [][NextCommand]_vars

\* --------------------------------------- handle_request and the stdio loop
\* lines 298-353 (python-mcp/server.py 776-831 is the same code).  A line of
\* the input is no JSON at all ("garbage"), JSON that is not an object
\* ("scalar"), or an object.  Of an object the loop and handle_request look
\* at: id (which may be missing), method, and, for tools/call, params, which
\* is missing, an object with a tool name, or null.
Requests ==
    {r \in [hasId : BOOLEAN, id : {"", "7"},
            method : {"tools/list", "tools/call", "initialize", "ping"},
            params : {"absent", "object", "null"},
            name : {"", "render_animation", "no_such_tool"}] :
       /\ r.hasId <=> (r.id # "")
       /\ r.method # "tools/call" => r.params = "absent"
       /\ (r.params = "object") <=> (r.name # "")}

Lines ==
    {[kind |-> "garbage", request |-> NoRpc.request],
     [kind |-> "scalar", request |-> NoRpc.request]}
    \cup {[kind |-> "object", request |-> r] : r \in Requests}

Inputs == UNION {[1..n -> Lines] : n \in 0..MaxLines}

\* request.get("id"), line 325
RequestId(request) == IF request.hasId THEN request.id ELSE "None"

\* lines 323-327
Response(request, outcome_of_call) ==
    [jsonrpc |-> "2.0", id |-> RequestId(request), result |-> outcome_of_call]

\* lines 289-296
UnknownToolEnvelope(name) ==
    [isError |-> TRUE, content |-> <<TextItem(<<"Unknown tool:", name>>)>>]

\* the tools/call that reaches render_animation (lines 305-308, 281-288)
IsRenderCall(request) ==
    /\ request.method = "tools/call"
    /\ request.params = "object"
    /\ request.name = "render_animation"

\* lines 300-321 for every request but a call of render_animation; "raise"
\* is params.get on a params that is no object (line 306)
Result(request) ==
    CASE request.method = "tools/list" -> [tools |-> <<"render_animation">>]
      [] request.method = "initialize" ->
            [protocolVersion |-> "2024-11-05", serverInfo |-> "manim-mcp"]
      [] request.method = "tools/call" /\ request.params = "null" ->
            [raise |-> "AttributeError"]
      [] request.method = "tools/call" /\ request.params = "absent" ->
            UnknownToolEnvelope("None")
      [] request.method = "tools/call" -> UnknownToolEnvelope(request.name)
      [] OTHER -> [error |-> <<"Unknown method:", request.method>>]

InitStdio ==
    /\ ServerInit
    /\ fs = {}
    /\ namer = NoNamer
    /\ py = NoPy
    /\ cmd = NoCmd
    /\ sweep = NoSweep
    /\ mol = NoMol
    /\ stdio \in {[NoStdio EXCEPT !.pc = "reading", !.input = i] : i \in Inputs}
    /\ rpc = [NoRpc EXCEPT !.pc = "idle"]
    /\ rag = NoRag

\* what the steps of the loop and of handle_request leave alone
besidesRpc == <<serverVars, namer, py, cmd, sweep, mol, rag>>

\* lines 338-343 and 349-353: readline; the end of the input ends the loop;
\* a line json.loads rejects, or one that is no object (request.get raises
\* at line 300), is logged and the loop goes on; an object is handed to
\* handle_request
StdioRead ==
    /\ pc = "idle"
    /\ stdio.pc = "reading"
    /\ IF stdio.input = <<>>
       THEN /\ stdio' = [stdio EXCEPT !.pc = "ended"]
            /\ UNCHANGED rpc
       ELSE IF Head(stdio.input).kind # "object"
       THEN /\ stdio' = [stdio EXCEPT !.input = Tail(@),
                                       !.done = Append(@, Head(stdio.input))]
            /\ UNCHANGED rpc
       ELSE /\ stdio' = [stdio EXCEPT !.pc = "handling"]
            /\ rpc' = [rpc EXCEPT
                         !.pc = "handling",
                         !.request = Head(stdio.input).request,
                         !.before = [jobs |-> nextJob, fs |-> fs,
                                     tmpFiles |-> tmpFiles]]
    /\ UNCHANGED besidesRpc

\* lines 300-327 for a request that does not reach render_animation
HandleRequest ==
    /\ rpc.pc = "handling"
    /\ ~IsRenderCall(rpc.request)
    /\ IF Result(rpc.request) = [raise |-> "AttributeError"]
       THEN rpc' = [rpc EXCEPT !.pc = "raised"]
       ELSE rpc' = [rpc EXCEPT
                      !.pc = "returned",
                      !.response = Response(rpc.request, Result(rpc.request))]
    /\ UNCHANGED <<stdio, besidesRpc>>

\* lines 305-308: the call of render_animation is entered
HandleCalls(args, fault) ==
    /\ rpc.pc = "handling"
    /\ IsRenderCall(rpc.request)
    /\ nextJob = rpc.before.jobs
    /\ CallTool(args, fault)

\* lines 308 and 323-327: render_animation has returned its envelope
HandleReturns ==
    /\ rpc.pc = "handling"
    /\ IsRenderCall(rpc.request)
    /\ nextJob = rpc.before.jobs + 1
    /\ pc = "idle"
    /\ rpc' = [rpc EXCEPT !.pc = "returned",
                          !.response = Response(rpc.request, response)]
    /\ UNCHANGED <<stdio, besidesRpc>>

\* lines 345-353: the response is printed, or the exception handle_request
\* raised is logged and nothing is printed
StdioPrint ==
    /\ stdio.pc = "handling"
    /\ rpc.pc \in {"returned", "raised"}
    /\ stdio' = [stdio EXCEPT
                   !.pc = "reading",
                   !.input = Tail(@),
                   !.done = Append(@, Head(stdio.input)),
                   !.out = IF rpc.pc = "returned" THEN Append(@, rpc.response)
                           ELSE @]
    /\ rpc' = [rpc EXCEPT !.pc = "idle"]
    /\ UNCHANGED besidesRpc

NextStdio ==
    \/ Construct
    \/ StdioRead
    \/ HandleRequest
    \/ /\ nextJob < MaxJobs
       /\ \E args \in Arguments, fault \in {"none", "tempfile", "spawn"} :
             HandleCalls(args, fault)
    \/ \E loc \in RendererLocs : ChildWrite(loc, req.format)
    \/ \E out \in Stdouts, err \in Stderrs : RunTimesOut(out, err)
    \/ \E res \in CompletedProcesses, read \in Reads, unlinkFails \in BOOLEAN :
          RunReturns(res, read, unlinkFails)
    \/ HandleReturns
    \/ StdioPrint

SpecStdio == InitStdio /\ [][NextStdio]_vars

\* ------------------------------------ chatmol-mcp: visualize_molecule
\* src/docker/chatmol-mcp/server.py.  A file of the media directory is known
\* by the request fields its name is made of (line 149) and by the job whose
\* PyMOL process wrote it.
PdbIds == {"1ubq", "4hhb"}
Styles == {"cartoon", "surface"}
MolFormats == {"png"}
MolArguments == [pdb_id : PdbIds, style : Styles, format : MolFormats]

\* line 149: self.media_dir / f"{pdb_id}_{style}.{format}"
OutputFile(r) == <<r.pdb_id, r.style, r.format>>

MolEnvelope(isError, text) == [isError |-> isError, content |-> <<TextItem(text)>>]

\* lines 188-201
MolSuccessEnvelope(r, file) ==
    [isError |-> FALSE,
     content |-> <<TextItem(<<"Molecular structure", r.pdb_id,
                              "rendered successfully", r.style>>),
                   [type |-> "image", data |-> file,
                    mimeType |-> <<"image/", r.format>>]>>]

InitMol ==
    /\ ServerInit
    /\ ~dirExists
    /\ namer = NoNamer
    /\ py = NoPy
    /\ cmd = NoCmd
    /\ sweep = NoSweep
    /\ mol \in {[NoMol EXCEPT !.pc = "idle", !.installed = i] : i \in BOOLEAN}
    /\ stdio = NoStdio
    /\ rpc = NoRpc
    /\ rag = NoRag

\* call_tool (lines 249-258) and visualize_molecule up to subprocess.run
\* (lines 94-159): without PyMOL the call returns at once; otherwise the
\* script is written and PyMOL started.  visualize_molecule contains no
\* await, so one call runs at a time.
MolCallTool(args) ==
    /\ mol.pc = "idle"
    /\ mol.job < MaxMolJobs
    /\ IF ~mol.installed
       THEN mol' = [mol EXCEPT
                      !.job = @ + 1, !.req = args, !.wrote = FALSE,
                      !.outcome = "not_installed",
                      !.response = MolEnvelope(FALSE, <<"PyMOL not installed">>)]
       ELSE mol' = [mol EXCEPT
                      !.pc = "running", !.job = @ + 1, !.req = args,
                      !.wrote = FALSE, !.scripts = @ + 1,
                      !.outcome = "none", !.response = NoResponse]
    /\ UNCHANGED besidesMol

\* the PyMOL process executes the png command of the script
MolProcessWrites ==
    /\ mol.pc = "running"
    /\ ~mol.wrote
    /\ mol' = [mol EXCEPT
                 !.wrote = TRUE,
                 !.media = {f \in @ : f.path # OutputFile(mol.req)}
                           \cup {[path |-> OutputFile(mol.req),
                                   writer |-> mol.job]}]
    /\ UNCHANGED besidesMol

\* lines 161-201: subprocess.run returned
MolRunReturns(returncode) ==
    /\ mol.pc = "running"
    /\ LET output_file == {f \in mol.media : f.path = OutputFile(mol.req)}
       IN  IF returncode # 0
           THEN mol' = [mol EXCEPT
                          !.pc = "idle", !.outcome = "failed",
                          !.response = MolEnvelope(TRUE, <<"PyMOL rendering failed">>)]
           ELSE IF output_file = {}
           THEN mol' = [mol EXCEPT
                          !.pc = "idle", !.outcome = "not_found",
                          !.response = MolEnvelope(TRUE, <<"Output file not found">>)]
           ELSE \E f \in output_file :
                   mol' = [mol EXCEPT
                             !.pc = "idle", !.outcome = "success",
                             !.scripts = @ - 1,
                             !.response = MolSuccessEnvelope(mol.req, f)]
    /\ UNCHANGED besidesMol

\* lines 203-210: PyMOL outlived the 120 seconds
MolRunTimesOut ==
    /\ mol.pc = "running"
    /\ mol' = [mol EXCEPT
                 !.pc = "idle", !.outcome = "timeout",
                 !.response = MolEnvelope(TRUE, <<"Molecular rendering timed out">>)]
    /\ UNCHANGED besidesMol

NextMol ==
    \/ \E args \in MolArguments : MolCallTool(args)
    \/ MolProcessWrites
    \/ \E returncode \in ExitCodes : MolRunReturns(returncode)
    \/ MolRunTimesOut

SpecMol == InitMol /\ [][NextMol]_vars

\* ------------------------------------------- rag-service: the endpoints
\* src/docker/rag-service/server.py.  The collection is the set of the ids
\* it holds.  Of a request the handlers look at which optional fields hold
\* something (lines 144, 192, 312-315).
RagIds == {"a", "b", "c", "d"}
IngestRequests ==
    [ids : SUBSET RagIds \ {{}}, documents : BOOLEAN, images : BOOLEAN]
SearchRequests == [query_texts : BOOLEAN, query_images : BOOLEAN]
DeleteRequests == [ids : SUBSET RagIds, where : BOOLEAN]

\* lines 174-176, 228-230, 329-331: `except Exception` around the whole
\* handler body catches every exception raised in it, the HTTPException of
\* the validation included (HTTPException derives from Exception), and
\* raises HTTPException(status_code=500) in its place
Rethrown(exc) == 500

InitRag ==
    /\ ServerInit
    /\ ~dirExists
    /\ namer = NoNamer
    /\ py = NoPy
    /\ cmd = NoCmd
    /\ sweep = NoSweep
    /\ mol = NoMol
    /\ stdio = NoStdio
    /\ rpc = NoRpc
    /\ rag = [NoRag EXCEPT !.pc = "serving"]

\* what a handler answers and leaves in the collection
Answer(endpoint, valid, status, collection) ==
    /\ rag' = [pc |-> "serving", collection |-> collection,
               before |-> rag.collection, endpoint |-> endpoint,
               valid |-> valid, status |-> status]
    /\ UNCHANGED besidesRag

\* POST /ingest, lines 131-176; `fails` is get_collection or collection.add
\* raising
Ingest(request, fails) ==
    /\ rag.pc = "serving"
    /\ LET valid == request.documents \/ request.images
       IN  IF ~valid
           THEN Answer("/ingest", valid, Rethrown("HTTPException(status_code=400)"), rag.collection)
           ELSE IF fails
           THEN Answer("/ingest", valid, Rethrown("Exception"), rag.collection)
           ELSE Answer("/ingest", valid, 200, rag.collection \cup request.ids)

\* POST /search, lines 179-230
Search(request, fails) ==
    /\ rag.pc = "serving"
    /\ LET valid == request.query_texts \/ request.query_images
       IN  IF ~valid
           THEN Answer("/search", valid, Rethrown("HTTPException(status_code=400)"), rag.collection)
           ELSE IF fails
           THEN Answer("/search", valid, Rethrown("Exception"), rag.collection)
           ELSE Answer("/search", valid, 200, rag.collection)

\* POST /delete, lines 305-331; `matching` is what the where filter selects
Delete(request, matching, fails) ==
    /\ rag.pc = "serving"
    /\ LET valid == request.ids # {} \/ request.where
           selected == IF request.where
                       THEN (IF request.ids # {} THEN request.ids \cap matching
                             ELSE matching)
                       ELSE request.ids
       IN  IF ~valid
           THEN Answer("/delete", valid, Rethrown("HTTPException(status_code=400)"), rag.collection)
           ELSE IF fails
           THEN Answer("/delete", valid, Rethrown("Exception"), rag.collection)
           ELSE Answer("/delete", valid, 200, rag.collection \ selected)

NextRag ==
    \/ \E request \in IngestRequests, fails \in BOOLEAN : Ingest(request, fails)
    \/ \E request \in SearchRequests, fails \in BOOLEAN : Search(request, fails)
    \/ \E request \in DeleteRequests, matching \in SUBSET rag.collection,
          fails \in BOOLEAN : Delete(request, matching, fails)

SpecRag == InitRag /\ [][NextRag]_vars

\* -------------------------------------- python-mcp: execute_python
\* src/docker/python-mcp/server.py.  Time is counted in seconds, in steps of
\* TickSeconds.
DefaultTimeout == 30
PyTimeouts == {10, 20}

\* what a tools/call for execute_python can carry as its timeout
PyArguments ==
    {[given |-> TRUE, timeout |-> t] : t \in PyTimeouts}
    \cup {[given |-> FALSE, timeout |-> 0]}

\* line 758: arguments.get("timeout", 30)
TimeoutArgument(args) ==
    IF args.given THEN args.timeout ELSE DefaultTimeout

InitPython ==
    /\ ServerInit
    /\ ~dirExists
    /\ namer = NoNamer
    /\ py = NoPy
    /\ cmd = NoCmd
    /\ sweep = NoSweep
    /\ mol = NoMol
    /\ stdio = NoStdio
    /\ rpc = NoRpc
    /\ rag = NoRag

\* call_tool (lines 752-759) and execute_python up to exec (lines 96-125)
PyCallTool(args) ==
    /\ py.pc \in {"idle", "returned"}
    /\ py' = [pc |-> "executing", timeout |-> TimeoutArgument(args),
              elapsed |-> 0, calls |-> py.calls + 1, isError |-> FALSE]
    /\ UNCHANGED besidesPy

\* line 125: exec(code, global_env) is still running TickSeconds later.
\* Nothing in execute_python reads its timeout parameter, and nothing else
\* runs on the event loop while exec does.
PyExecRuns ==
    /\ py.pc = "executing"
    /\ py' = [py EXCEPT !.elapsed = py.elapsed + TickSeconds]
    /\ UNCHANGED besidesPy

\* exec returns or raises, and execute_python returns its envelope (lines
\* 127-183)
PyExecEnds(raised) ==
    /\ py.pc = "executing"
    /\ py' = [py EXCEPT !.pc = "returned", !.isError = raised]
    /\ UNCHANGED besidesPy

NextPython ==
    \/ /\ py.calls < MaxPyCalls
       /\ \E args \in PyArguments : PyCallTool(args)
    \/ /\ py.elapsed < MaxElapsed
       /\ PyExecRuns
    \/ \E raised \in BOOLEAN : PyExecEnds(raised)

SpecPython == InitPython /\ [][NextPython]_vars

\* =================================================================== claims
Tracked(files) == {f \in files : f.ext \in Range(TrackedExts)}

DistinctMtimes(files) ==
    \A f \in files, g \in files : f # g => f.mtime # g.mtime

MostRecent(files, n) ==
    {f \in files : Cardinality({g \in files : g.mtime > f.mtime}) < n}

CleanPass ==
    /\ retention.ran
    /\ ~retention.listError
    /\ ~retention.statError
    /\ retention.failed = {}

Text(env) == Range(env.content[1].text)

ErrorShape(env) ==
    /\ Len(env.content) = 1
    /\ env.content[1].type = "text"

SuccessShape(env) ==
    /\ Len(env.content) = 2
    /\ env.content[1].type = "text"
    /\ env.content[2].type = "resource"

Answered == pc = "idle" /\ nextJob > 0

\* C1: a retention pass over more than max_videos tracked files with pairwise
\* distinct modification times, in which no stat and no deletion fails,
\* leaves exactly the max_videos most recently modified files; after the
\* last of max_videos + 2 sequential one-artifact renders the artifacts of
\* the last max_videos renders are all that is left.
C1_RetentionKeepsNewest ==
    /\ ( /\ CleanPass
         /\ Cardinality(Tracked(retention.before)) > max_videos
         /\ DistinctMtimes(Tracked(retention.before)) )
       => /\ Tracked(fs) = MostRecent(Tracked(retention.before), max_videos)
          /\ Cardinality(Tracked(fs)) = max_videos
          /\ \A f \in Tracked(retention.before) \ MostRecent(Tracked(retention.before), max_videos) :
                f \notin fs
    /\ ( /\ CleanPass
         /\ pc = "idle"
         /\ nextJob = ScenarioRenders )
       => /\ Cardinality(fs) = max_videos
          /\ {f.job : f \in fs} = (ScenarioRenders - max_videos + 1)..ScenarioRenders

C1_Witness ==
    /\ CleanPass
    /\ pc = "idle"
    /\ nextJob = ScenarioRenders
    /\ outcome = "success"
    /\ Cardinality(Tracked(retention.before)) > max_videos
    /\ DistinctMtimes(Tracked(retention.before))

C3_OwnArtifact ==
    (Answered /\ outcome = "success") => response.content[2].bytes.job = req.job

\* C4: when the budget expires before the renderer exits, the timed-out
\* error envelope is returned and neither the renderer nor a process it
\* spawned is alive at the return.
C4_TimeoutKillsAll ==
    (Answered /\ outcome = "timeout")
        => /\ response = TimedOutEnvelope
           /\ child # "running"
           /\ req.job \notin descendants

\* C5: a non-zero exit code yields an error envelope whose single text item
\* contains the captured stderr, with neither artifact location nor retention
\* executed; artifact location runs only after exit code zero without timeout.
C5_ExitClassified ==
    /\ (Answered /\ result.returned /\ result.returncode # 0)
        => /\ response.isError
           /\ ErrorShape(response)
           /\ result.stderr \in Text(response)
           /\ "locate" \notin trace
           /\ "cleanup" \notin trace
           /\ ~retention.ran
    /\ "locate" \in trace
        => /\ result.returned
           /\ result.returncode = 0
           /\ child = "exited"

C5_Witness ==
    /\ Answered
    /\ result.returned
    /\ result.returncode # 0
    /\ fs # {}

\* C6: a request without the code field is answered with an error envelope
\* naming the field, and no renderer process is spawned for it.
C6_MissingCodeRejected ==
    (req.job > 0 /\ ~req.hasCode)
        => /\ spawns = 0
           /\ child # "running"
           /\ Answered => (response.isError /\ "code" \in Text(response))

\* C7: an envelope of render_animation has isError=false exactly when its
\* content is the pair [text item, resource item] and isError=true exactly
\* when its content is a single text item.
C7_EnvelopeShape ==
    (Answered /\ outcome # "raised")
        => /\ ~response.isError <=> SuccessShape(response)
           /\ response.isError <=> ErrorShape(response)

C7_Witness ==
    /\ Answered
    /\ outcome = "not_found"
    /\ response.isError
    /\ ErrorShape(response)

\* C8: whatever the external process and the filesystem operations do
\* (spawn failure, unreadable artifact, failed temp-file deletion, artifact
\* gone when its size is read), render_animation returns an envelope and no
\* exception leaves it.
C8_NeverRaises ==
    /\ outcome # "raised"
    /\ Answered => (Len(response.content) >= 1 /\ response.content[1].type = "text")

C8_Witness ==
    /\ Answered
    /\ outcome = "error"
    /\ "cleanup" \in trace
    /\ response.isError
    /\ ErrorShape(response)

\* C9: the error envelope of a failed render (non-zero exit, timeout,
\* artifact not found) has isError=true and carries both the captured stderr
\* and the captured stdout.
C9_FailuresCarryOutput ==
    (Answered /\ outcome \in {"failed", "timeout", "not_found"})
        => /\ response.isError
           /\ result.stderr \in Text(response)
           /\ result.stdout \in Text(response)

\* C10: a request spawns the renderer at most once, and a failure outcome
\* (render failure, timeout, artifact not found, read error) ends the request
\* with no renderer left to wait for.
C10_SingleAttempt ==
    /\ spawns <= 1
    /\ outcome \in {"failed", "timeout", "not_found", "error"}
        => /\ pc = "idle"
           /\ child # "running"

C10_Witness ==
    /\ Answered
    /\ spawns = 1
    /\ outcome = "error"
    /\ "locate" \in trace
    /\ "read" \notin trace

\* C11 as stated: while the renderer of one request is running, the handler
\* of a further request can be started in the same server instance.
C11_Original ==
    (pc = "waiting" /\ child = "running" /\ nextJob < MaxJobs)
        => ENABLED (\E args \in Arguments : CallTool(args, "none"))

\* C11 amended: within one server instance render requests are handled one at
\* a time: at most one call of render_animation is in flight, a renderer runs
\* only for that call, and no further request is started before it returns.
C11_OneAtATime ==
    /\ Cardinality(inflight) <= 1
    /\ \A r \in inflight : r.job = req.job
    /\ child = "running" => (pc = "waiting" /\ inflight # {})
    /\ (pc = "waiting" /\ child = "running")
          => ~ ENABLED (\E args \in Arguments : CallTool(args, "none"))

C11_Witness ==
    /\ pc = "waiting"
    /\ child = "running"
    /\ wrote
    /\ nextJob < MaxJobs
    /\ Cardinality(inflight) = 1

IsIdent(ch) == ch \in Letters \cup {"_"} \cup UniqueIds

RECURSIVE IdentAt(_, _)
IdentAt(s, i) ==
    IF i > Len(s) THEN <<>>
    ELSE IF ~IsIdent(s[i]) THEN <<>>
    ELSE <<s[i]>> \o IdentAt(s, i + 1)

DeclaredNames(s) ==
    {IdentAt(s, i + 1) : i \in {j \in 1..Len(s) : s[j] = ClassKw}} \ {<<>>}

WithoutImportLine(file) ==
    IF file # <<>> /\ file[1] = ImportLine THEN Tail(file) ELSE file

\* C13 as stated: when the code declares no class of the requested scene
\* name, the code is written unchanged and the command line names the scene
\* without the job identifier.
C13_Original ==
    (namer.pc = "written" /\ namer.scene_name \notin DeclaredNames(namer.code))
        => /\ WithoutImportLine(namer.scene_file) = namer.code
           /\ namer.cmd_scene = namer.scene_name

\* C13 amended: when the code does not contain the text "class <scene_name>",
\* the code is written unchanged and the command line still names the
\* qualified scene <scene_name>_<job id>, which the file does not declare.
C13_UndeclaredSceneStillQualified ==
    (namer.pc = "written"
     /\ ~Contains(namer.code, <<ClassKw>> \o namer.scene_name))
        => /\ WithoutImportLine(namer.scene_file) = namer.code
           /\ namer.cmd_scene = UniqueSceneName(namer.scene_name, namer.unique_id)
           /\ namer.cmd_scene # namer.scene_name
           /\ namer.cmd_scene \notin DeclaredNames(namer.scene_file)

C13_Witness ==
    /\ namer.pc = "written"
    /\ ~Contains(namer.code, <<ClassKw>> \o namer.scene_name)
    /\ DeclaredNames(namer.code) # {}
    /\ namer.scene_file # namer.code

OwnAt(loc) == {f \in fs : f.job = req.job /\ f.loc = loc /\ f.ext = req.format}

C15_FirstMatchWins ==
    Answered =>
        /\ outcome = "not_found"
             <=> /\ OwnAt("p1") \cup OwnAt("p2") \cup OwnAt("p3") = {}
                 /\ OwnAt("named") = {}
                 /\ Tracked(fs) = {}
        /\ outcome = "not_found" => response = NotFoundEnvelope(result)
        /\ outcome = "success" =>
             LET output_file == response.content[2].bytes
             IN  IF OwnAt("p1") # {} THEN output_file \in OwnAt("p1")
                 ELSE IF OwnAt("p2") # {} THEN output_file \in OwnAt("p2")
                 ELSE IF OwnAt("p3") # {} THEN output_file \in OwnAt("p3")
                 ELSE IF OwnAt("named") # {} THEN output_file \in OwnAt("named")
                 ELSE output_file \in Tracked(fs)

C15_Witness ==
    /\ Answered
    /\ outcome = "success"
    /\ response.content[2].bytes \in OwnAt("p2")
    /\ OwnAt("p3") # {}
    /\ \E f \in fs : f.job # req.job

\* C16: when the located artifact is removed after the locator resolved it
\* and before its bytes are read, the request ends with an error envelope
\* (isError=true, a single text item, no payload) and no exception leaves the
\* handler.
C16_RemovedBeforeRead ==
    (Answered /\ "removed" \in trace)
        => /\ "locate" \in trace
           /\ "read" \notin trace
           /\ outcome = "error"
           /\ response.isError
           /\ ErrorShape(response)

C16_Witness ==
    /\ Answered
    /\ "removed" \in trace
    /\ result.returned
    /\ result.returncode = 0
    /\ fs # {}

C18_RetentionFailuresContained ==
    retention.ran =>
        /\ retention.failed \subseteq retention.surplus
        /\ \A f \in retention.surplus :
              (f \in fs) <=> (f \in retention.failed)
        /\ fs = retention.before \ (retention.surplus \ retention.failed)
        /\ (retention.listError \/ retention.statError) => fs = retention.before
        /\ outcome # "raised"
        /\ pc = "idle"
        /\ Answered =>
              \/ outcome = "success" /\ response.content[2].bytes \in fs
              \/ outcome = "error" /\ retention.surplus \ retention.failed # {}

C18_Witness ==
    /\ Answered
    /\ outcome = "success"
    /\ retention.failed # {}
    /\ retention.surplus \ retention.failed # {}

\* C20: a render whose renderer exited 0 and whose artifact was located and
\* read (and whose retention pass has run) is answered with isError=false:
\* the pass does not delete the artifact the request located.
C20_LocatedSurvivesRetention ==
    (Answered /\ result.returned /\ result.returncode = 0 /\ "cleanup" \in trace)
        => /\ outcome = "success"
           /\ ~response.isError

\* C19: execute_python honours its timeout argument (30 seconds when
\* absent): submitted code never runs longer than the timeout, it is stopped
\* and the call returns.
C19_HonoursTimeout ==
    /\ py.pc = "executing" => py.elapsed <= py.timeout
    /\ py.pc = "returned" => py.elapsed <= py.timeout

\* C21: within one successful render request the retention pass starts only
\* after the artifact's bytes have been read and encoded: a request whose
\* pass has run has read its artifact, and the payload it returns is the file
\* as it was on the disk the pass started from, whatever the pass deleted.
C21_ReadBeforeRetention ==
    "cleanup" \in trace
        => /\ "read" \in trace
           /\ retention.ran
           /\ outcome = "success"
                 => response.content[2].bytes \in retention.before

C21_Witness ==
    /\ Answered
    /\ outcome = "success"
    /\ "cleanup" \in trace
    /\ retention.before \ fs # {}

\* C22: in every success envelope the mimeType of the resource item is the
\* one of the extension of the file whose bytes are returned (mp4 video/mp4,
\* gif image/gif, png image/png), whichever locator step found the file.
C22_MimeOfReturnedFile ==
    (Answered /\ outcome = "success")
        => LET item == response.content[2]
           IN \/ item.bytes.ext = "mp4" /\ item.mimeType = "video/mp4"
              \/ item.bytes.ext = "gif" /\ item.mimeType = "image/gif"
              \/ item.bytes.ext = "png" /\ item.mimeType = "image/png"

\* C23: when render_animation has returned, on every path (success, render
\* failure, timeout, not found, any other exception), the temporary scene
\* file of the request no longer exists: no scene file is left behind.
C23_SceneFileRemoved ==
    Answered => tmpFiles = 0

\* C25: a retention pass deletes nothing when at most max_videos tracked
\* files exist under media/videos or when media/videos does not exist, and
\* in every case it leaves every file without a tracked extension and every
\* file outside media/videos where it is.
C25_RetentionFrame ==
    retention.ran
        => LET inside == {f \in retention.before : f.loc # "outside"}
               tracked == {f \in inside : f.ext \in {"mp4", "gif", "png"}}
           IN /\ (~dirExists \/ Cardinality(tracked) <= max_videos)
                    => fs = retention.before
              /\ retention.before \ tracked \subseteq fs

C25_Witness ==
    /\ retention.ran
    /\ retention.before \ fs # {}
    /\ UntrackedFiles \cup OutsideFiles \subseteq retention.before

\* C26: the command line is a function of the request: quality low, medium,
\* high, production give -ql, -qm, -qh, -qp and any other quality -qm;
\* format gif or png adds --format=<format> and any other format adds no
\* format flag; --transparent is present exactly when the transparency flag
\* is true; omitted fields take the defaults scene MainScene, quality
\* medium, format mp4, transparent false.
C26_CommandLine ==
    cmd.pc = "built"
        => LET a == cmd.arguments
               argv == cmd.argv
               scene == IF "scene_name" \in a.given THEN a.scene_name
                        ELSE <<"MainScene">>
               quality == IF "quality" \in a.given THEN a.quality ELSE "medium"
               format == IF "format" \in a.given THEN a.format ELSE "mp4"
               transparent == "transparent" \in a.given /\ a.transparent
               flags == {argv[i] : i \in 5..Len(argv)}
           IN /\ argv[1] = "manim"
              /\ \/ quality = "low" /\ argv[2] = "-ql"
                 \/ quality = "medium" /\ argv[2] = "-qm"
                 \/ quality = "high" /\ argv[2] = "-qh"
                 \/ quality = "production" /\ argv[2] = "-qp"
                 \/ /\ quality \notin {"low", "medium", "high", "production"}
                    /\ argv[2] = "-qm"
              /\ argv[4] = scene \o <<"_", cmd.unique_id>>
              /\ flags = (IF format = "gif" THEN {"--format=gif"}
                          ELSE IF format = "png" THEN {"--format=png"}
                          ELSE {})
                         \cup (IF transparent THEN {"--transparent"} ELSE {})
              /\ Len(argv) = 4 + Cardinality(flags)

C26_Witness ==
    /\ cmd.pc = "built"
    /\ cmd.arguments.given = {"quality", "format", "transparent"}
    /\ cmd.arguments.quality = "ultra"
    /\ cmd.arguments.format = "png"
    /\ cmd.arguments.transparent

\* C24: under any interleaving of retention passes with other requests'
\* artifact writes, a retention pass never deletes a file that is among the
\* max_videos most recently modified tracked files at the moment of the
\* deletion: at least max_videos other tracked files are then as recent.
C24_NeverDeletesRecent ==
    \A d \in sweep.last :
        Cardinality({g \in d.disk \ {d.file} :
                       /\ g.loc # "outside"
                       /\ g.ext \in {"mp4", "gif", "png"}
                       /\ g.mtime >= d.file.mtime}) >= max_videos

\* C27: the success payload of visualize_molecule holds the bytes written by
\* that request's own PyMOL process: a file an earlier request left at
\* media/<pdb_id>_<style>.<format> is never returned for a request whose own
\* process exited 0 without writing its output.
C27_OwnMolecule ==
    (mol.pc = "idle" /\ mol.outcome = "success")
        => /\ mol.wrote
           /\ mol.response.content[2].data.writer = mol.job

\* C28: in stdio mode the requests are handled one at a time in arrival
\* order: for each input line that is valid JSON exactly one response line
\* is written before the next line is read, a line that is not valid JSON
\* produces no response and does not stop the loop, and the end of the
\* input ends the loop.
C28_OneResponsePerLine ==
    LET valid == {i \in 1..Len(stdio.done) : stdio.done[i].kind # "garbage"}
    IN /\ Len(stdio.out) = Cardinality(valid)
       /\ stdio.pc = "ended" => stdio.input = <<>>
       /\ \A i \in 1..Len(stdio.out) :
             \E j \in valid :
                /\ Cardinality({k \in valid : k <= j}) = i
                /\ stdio.out[i].id = RequestId(stdio.done[j].request)

\* C29: handle_request returns for every request a response with jsonrpc
\* "2.0" and the id of that request; a method other than tools/list,
\* tools/call and initialize yields a result carrying an Unknown method
\* error; a tools/call with an unknown tool name yields an envelope with
\* isError=true and a single text item, with no process spawned and no file
\* touched.
C29_EveryRequestAnswered ==
    /\ rpc.pc # "raised"
    /\ rpc.pc = "returned"
          => /\ rpc.response.jsonrpc = "2.0"
             /\ rpc.response.id = (IF rpc.request.hasId THEN rpc.request.id
                                   ELSE "None")
             /\ rpc.request.method \notin {"tools/list", "tools/call", "initialize"}
                   => rpc.response.result
                        = [error |-> <<"Unknown method:", rpc.request.method>>]
             /\ (rpc.request.method = "tools/call"
                   /\ rpc.request.name # "render_animation")
                   => /\ rpc.response.result.isError
                      /\ Len(rpc.response.result.content) = 1
                      /\ rpc.response.result.content[1].type = "text"
                      /\ nextJob = rpc.before.jobs
                      /\ fs = rpc.before.fs
                      /\ tmpFiles = rpc.before.tmpFiles

\* C30: a request that fails validation is answered with HTTP 400 and leaves
\* the collection unchanged: /ingest with neither documents nor images,
\* /search with neither query_texts nor query_images, /delete with neither
\* ids nor where.
C30_InvalidAnswered400 ==
    (rag.endpoint # "" /\ ~rag.valid)
        => /\ rag.status = 400
           /\ rag.collection = rag.before
====
